---- MODULE Spec2Model ----
(***************************************************************************)
(* A model of src/model.py: Header, Entry (a row whose cells are           *)
(* insertion-ordered sets of strings), Table (an ordered list of Entry     *)
(* objects) and the CSV codec CSV_to_table / table_to_CSV; and of          *)
(* src/gui.py: the Window with its File menu and the Table widget with     *)
(* its selected cell.                                                      *)
(*                                                                         *)
(* A string is a sequence of one-character strings, "" is << >>.  An       *)
(* Entry object lives in the heap under an identity (its index), so that   *)
(* two objects with equal contents are still two objects.  Column and row  *)
(* indices are Python's, counted from 0.                                   *)
(***************************************************************************)
EXTENDS Integers, Sequences, FiniteSets, TLC

VARIABLES heap, tables, file, last, pre, budget, window, widget

vars == <<heap, tables, file, last, pre, budget, window, widget>>

(***************************************************************************)
(* Bounds of the model.                                                    *)
(***************************************************************************)
MaxCols == 2
MaxObjs == 6
MaxOthers == 2
MaxSteps == 4
MaxRows == 2
MaxTables == 2
MaxTableSteps == 2
MaxCsvSteps == 2
MaxGuiSteps == 4

EMPTY == << >>

\* The values the operations are called with: "", "a", "b".
Strs == {EMPTY, <<"a">>, <<"b">>}

ValueLists == UNION {[1..n -> Strs] : n \in 0..MaxCols}

ColumnIndices == (0 - 1)..MaxCols

Min(a, b) == IF a < b THEN a ELSE b

Range(s) == {s[i] : i \in 1..Len(s)}

(***************************************************************************)
(* dict[str, object] used as an ordered set: the keys in insertion order.  *)
(***************************************************************************)
\* A variant of DictUpdate: the key is removed and added again at the end.
DictUpdate_move_to_end(d, value) ==
    SelectSeq(d, LAMBDA k : k # value) \o <<value>>

\* d.update({value: None}): a key already present keeps its position.
DictUpdate(d, value) == IF value \in Range(d) THEN d ELSE Append(d, value)

\* d.clear()
DictClear(d) == << >>

(***************************************************************************)
(* class Entry                                                             *)
(***************************************************************************)
Entry_init(length, values) ==
    LET vals == IF Len(values) = 0 THEN [i \in 1..length |-> EMPTY] ELSE values
    IN  [column_count |-> Len(vals),
         cell_values  |-> [i \in 1..Len(vals) |->
                              IF vals[i] # EMPTY THEN <<vals[i]>> ELSE << >>]]

\* self.__cell_values[column_index]: a Python list index, defined for
\* -len <= column_index < len (a negative index counts from the end).
ListIndexOk(n, index) == index >= 0 - n /\ index < n

ListPos(n, index) == IF index < 0 THEN index + n + 1 ELSE index + 1

\* A variant of append_value_to_column that checks only the upper bound: a
\* negative index then reaches the list and counts from its end.
append_value_to_column_no_lower_bound(entry, column_index, value) ==
    IF column_index >= entry.column_count THEN entry
    ELSE IF value = EMPTY THEN entry
    ELSE IF ~ListIndexOk(Len(entry.cell_values), column_index) THEN entry
    ELSE [entry EXCEPT !.cell_values[ListPos(Len(entry.cell_values), column_index)] =
                           DictUpdate(@, value)]

\* A variant of append_value_to_column without the empty-string guard.
append_value_to_column_keeps_empty(entry, column_index, value) ==
    IF column_index < 0 \/ column_index >= entry.column_count THEN entry
    ELSE [entry EXCEPT !.cell_values[column_index + 1] = DictUpdate(@, value)]

append_value_to_column(entry, column_index, value) ==
    IF column_index < 0 \/ column_index >= entry.column_count THEN entry
    ELSE IF value = EMPTY THEN entry
    ELSE [entry EXCEPT !.cell_values[column_index + 1] = DictUpdate(@, value)]

\* A variant of set_value_at_column that does not clear the dictionary.
set_value_at_column_no_clear(entry, column_index, value) ==
    IF column_index < 0 \/ column_index >= entry.column_count THEN entry
    ELSE IF value = EMPTY THEN entry
    ELSE [entry EXCEPT !.cell_values[column_index + 1] = DictUpdate(@, value)]

set_value_at_column(entry, column_index, value) ==
    IF column_index < 0 \/ column_index >= entry.column_count THEN entry
    ELSE IF value = EMPTY THEN entry
    ELSE [entry EXCEPT !.cell_values[column_index + 1] =
                           DictUpdate(DictClear(@), value)]

get_values_from_column(entry, column_index) ==
    entry.cell_values[ListPos(Len(entry.cell_values), column_index)]

RECURSIVE Join(_, _)
Join(strings, separator) ==
    IF Len(strings) = 0 THEN EMPTY
    ELSE IF Len(strings) = 1 THEN strings[1]
    ELSE strings[1] \o separator \o Join(Tail(strings), separator)

SEPARATOR == <<",", " ">>

get_value_str_from_column(entry, column_index, separator) ==
    IF column_index < 0 \/ column_index >= entry.column_count THEN EMPTY
    ELSE Join(get_values_from_column(entry, column_index), separator)

get_value_str_from_columns(entry, separator) ==
    [i \in 1..entry.column_count |->
        get_value_str_from_column(entry, i - 1, separator)]

\* Whether the call raises: IndexError comes from self.__cell_values[column_index]
\* when the statement is reached with an index the list does not accept.
append_value_to_column_raises(entry, column_index, value) ==
    IF column_index < 0 \/ column_index >= entry.column_count THEN FALSE
    ELSE IF value = EMPTY THEN FALSE
    ELSE ~ListIndexOk(Len(entry.cell_values), column_index)

set_value_at_column_raises(entry, column_index, value) ==
    IF column_index < 0 \/ column_index >= entry.column_count THEN FALSE
    ELSE IF value = EMPTY THEN FALSE
    ELSE ~ListIndexOk(Len(entry.cell_values), column_index)

get_value_str_from_column_raises(entry, column_index) ==
    IF column_index < 0 \/ column_index >= entry.column_count THEN FALSE
    ELSE ~ListIndexOk(Len(entry.cell_values), column_index)

\* for value in column_values: target.append_value_to_column(column_index, value)
RECURSIVE AppendValues(_, _, _)
AppendValues(target, column_index, column_values) ==
    IF Len(column_values) = 0 THEN target
    ELSE AppendValues(append_value_to_column(target, column_index, column_values[1]),
                      column_index, Tail(column_values))

\* for column_index in range(from, upto): append source's values of the column
RECURSIVE AppendColumns(_, _, _, _)
AppendColumns(target, source, from, upto) ==
    IF from >= upto THEN target
    ELSE AppendColumns(
             AppendValues(target, from, get_values_from_column(source, from)),
             source, from + 1, upto)

\* A variant of get_deep_copy that copies only the first value of each column.
Entry_get_deep_copy_first_value(entry) ==
    [column_count |-> entry.column_count,
     cell_values  |-> [i \in 1..Len(entry.cell_values) |->
                          IF Len(entry.cell_values[i]) = 0 THEN << >>
                          ELSE <<entry.cell_values[i][1]>>]]

Entry_get_deep_copy(entry) ==
    AppendColumns(Entry_init(entry.column_count, << >>), entry,
                  0, entry.column_count)

\* A variant of the merge loop that stops one column early.
RECURSIVE MergeLoop_off_by_one(_, _, _)
MergeLoop_off_by_one(merged_entry, self, entries) ==
    IF Len(entries) = 0 THEN merged_entry
    ELSE MergeLoop_off_by_one(
             AppendColumns(merged_entry, entries[1], 0,
                           Min(self.column_count, entries[1].column_count) - 1),
             self, Tail(entries))

RECURSIVE MergeLoop(_, _, _)
MergeLoop(merged_entry, self, entries) ==
    IF Len(entries) = 0 THEN merged_entry
    ELSE MergeLoop(
             AppendColumns(merged_entry, entries[1], 0,
                           Min(self.column_count, entries[1].column_count)),
             self, Tail(entries))

merge_entries(self, entries) ==
    LET merged_entry == Entry_get_deep_copy(self)
    IN  IF Len(entries) = 0 THEN merged_entry
        ELSE MergeLoop(merged_entry, self, entries)

(***************************************************************************)
(* Python's list, as Table.__entries uses it.  The elements are Entry      *)
(* objects; class Entry defines no __eq__, so two entries compare equal    *)
(* exactly when they are the same object.                                  *)
(***************************************************************************)
Entry_eq(x, y) == x = y

\* list.insert(index, x): an index out of range is clamped, never an error.
list_insert(l, index, x) ==
    LET n == Len(l)
        i == IF index < 0 THEN (IF index + n < 0 THEN 0 ELSE index + n)
             ELSE IF index > n THEN n ELSE index
    IN  SubSeq(l, 1, i) \o <<x>> \o SubSeq(l, i + 1, n)

\* list.pop(index), for an index list indexing accepts
list_pop(l, index) ==
    LET p == ListPos(Len(l), index)
    IN  SubSeq(l, 1, p - 1) \o SubSeq(l, p + 1, Len(l))

\* the positions list.remove(x) may stop at: the elements equal to x
list_matches(l, x) == {i \in 1..Len(l) : Entry_eq(l[i], x)}

SetMin(S) == CHOOSE i \in S : \A j \in S : i <= j

\* list.remove(x): removes the first element equal to x
list_remove(l, x) ==
    LET p == SetMin(list_matches(l, x))
    IN  SubSeq(l, 1, p - 1) \o SubSeq(l, p + 1, Len(l))

(***************************************************************************)
(* The record of the last call: the operation, its arguments, what it      *)
(* returned and whether it raised.                                         *)
(***************************************************************************)
\* The file at csv_filepath: whether it exists, and its characters.
NoFile == [exists |-> FALSE, text |-> << >>]

\* gui.Window before it has a table: no table model (0 stands for None), the
\* landing label in the main frame.
NoWindow ==
    [current_table_model |-> 0, mainframe_component |-> "label",
     root |-> "mainloop"]

\* No gui.Table widget; a widget starts with the indices of the selected cell
\* at -1 and no textbox (row -1 stands for None).
NoTextbox == [row |-> 0 - 1, column |-> 0 - 1]

NoWidget ==
    [table_model |-> 0, selected_row_index |-> 0 - 1,
     selected_column_index |-> 0 - 1, selected_textbox |-> NoTextbox]

NoCall ==
    [op |-> "none", t |-> 0, e |-> 0, index |-> 0, value |-> EMPTY,
     others |-> << >>, ret |-> 0, str |-> EMPTY, err |-> "ok",
     cancelled |-> FALSE]

Ids == 1..Len(heap)

TableIds == 1..Len(tables)

Snapshot ==
    [heap |-> heap, tables |-> tables, window |-> window, widget |-> widget]

\* Every call and every event spends one unit of the budget and leaves the
\* state it started from in pre.
Step ==
    /\ budget > 0
    /\ budget' = budget - 1
    /\ pre' = Snapshot

\* A call into model.py, made by a caller other than the window.
Tick ==
    /\ Step
    /\ UNCHANGED <<window, widget>>

\* Room for n more objects.
HeapRoom(n) == Len(heap) + n <= MaxObjs

(***************************************************************************)
(* Calls on Entry objects.                                                 *)
(***************************************************************************)
\* Entry(length=length, values=values)
EntryNew(length, values) ==
    /\ Tick
    /\ HeapRoom(1)
    /\ heap' = Append(heap, Entry_init(length, values))
    /\ last' = [NoCall EXCEPT !.op = "Entry", !.ret = Len(heap) + 1]
    /\ UNCHANGED <<tables, file>>

\* heap[e].append_value_to_column(column_index, value)
AppendValueToColumn(e, column_index, value) ==
    /\ Tick
    /\ IF append_value_to_column_raises(heap[e], column_index, value)
       THEN /\ heap' = heap
            /\ last' = [NoCall EXCEPT !.op = "append_value_to_column", !.e = e,
                            !.index = column_index, !.value = value,
                            !.err = "IndexError"]
       ELSE /\ heap' = [heap EXCEPT
                            ![e] = append_value_to_column(@, column_index, value)]
            /\ last' = [NoCall EXCEPT !.op = "append_value_to_column", !.e = e,
                            !.index = column_index, !.value = value]
    /\ UNCHANGED <<tables, file>>

\* heap[e].set_value_at_column(column_index, value)
SetValueAtColumn(e, column_index, value) ==
    /\ Tick
    /\ IF set_value_at_column_raises(heap[e], column_index, value)
       THEN /\ heap' = heap
            /\ last' = [NoCall EXCEPT !.op = "set_value_at_column", !.e = e,
                            !.index = column_index, !.value = value,
                            !.err = "IndexError"]
       ELSE /\ heap' = [heap EXCEPT
                            ![e] = set_value_at_column(@, column_index, value)]
            /\ last' = [NoCall EXCEPT !.op = "set_value_at_column", !.e = e,
                            !.index = column_index, !.value = value]
    /\ UNCHANGED <<tables, file>>

\* heap[e].get_value_str_from_column(column_index)
GetValueStrFromColumn(e, column_index) ==
    /\ Tick
    /\ last' = IF get_value_str_from_column_raises(heap[e], column_index)
               THEN [NoCall EXCEPT !.op = "get_value_str_from_column", !.e = e,
                        !.index = column_index, !.err = "IndexError"]
               ELSE [NoCall EXCEPT !.op = "get_value_str_from_column", !.e = e,
                        !.index = column_index,
                        !.str = get_value_str_from_column(heap[e], column_index,
                                                          SEPARATOR)]
    /\ UNCHANGED <<heap, tables, file>>

\* heap[e].get_deep_copy()
EntryGetDeepCopy(e) ==
    /\ Tick
    /\ HeapRoom(1)
    /\ heap' = Append(heap, Entry_get_deep_copy(heap[e]))
    /\ last' = [NoCall EXCEPT !.op = "Entry.get_deep_copy", !.e = e,
                              !.ret = Len(heap) + 1]
    /\ UNCHANGED <<tables, file>>

\* heap[e].merge_entries([heap[i] for i in others])
MergeEntries(e, others) ==
    /\ Tick
    /\ HeapRoom(1)
    /\ heap' = Append(heap, merge_entries(heap[e],
                                          [i \in 1..Len(others) |-> heap[others[i]]]))
    /\ last' = [NoCall EXCEPT !.op = "merge_entries", !.e = e, !.others = others,
                              !.ret = Len(heap) + 1]
    /\ UNCHANGED <<tables, file>>

(***************************************************************************)
(* class Table: a header (a tuple of column names) and a list of Entry     *)
(* objects.                                                                *)
(***************************************************************************)
\* Table(header, entries): every given entry is deep-copied into a new object.
\* given holds the entries passed in; the new objects take the identities
\* after those of hp.
Table_init_heap(hp, given) ==
    hp \o [i \in 1..Len(given) |-> Entry_get_deep_copy(given[i])]

Table_init(hp, header, given) ==
    [header |-> header, entries |-> [i \in 1..Len(given) |-> Len(hp) + i]]

\* the Entry objects of a table, in row order
Rows(hp, tb) == [i \in 1..Len(tb.entries) |-> hp[tb.entries[i]]]

\* tables[t].append_entry(heap[e])
TableAppendEntry(t, e) ==
    /\ Tick
    /\ tables' = [tables EXCEPT ![t].entries = Append(@, e)]
    /\ last' = [NoCall EXCEPT !.op = "append_entry", !.t = t, !.e = e]
    /\ UNCHANGED <<heap, file>>

\* tables[t].insert_entry(index, heap[e])
TableInsertEntry(t, index, e) ==
    /\ Tick
    /\ tables' = [tables EXCEPT ![t].entries = list_insert(@, index, e)]
    /\ last' = [NoCall EXCEPT !.op = "insert_entry", !.t = t, !.e = e,
                              !.index = index]
    /\ UNCHANGED <<heap, file>>

\* tables[t].get_entry(index)
TableGetEntry(t, index) ==
    /\ Tick
    /\ last' = IF ListIndexOk(Len(tables[t].entries), index)
               THEN [NoCall EXCEPT !.op = "get_entry", !.t = t, !.index = index,
                        !.ret = tables[t].entries[ListPos(Len(tables[t].entries), index)]]
               ELSE [NoCall EXCEPT !.op = "get_entry", !.t = t, !.index = index,
                        !.err = "IndexError"]
    /\ UNCHANGED <<heap, tables, file>>

\* tables[t].pop_entry(index)
TablePopEntry(t, index) ==
    /\ Tick
    /\ IF ListIndexOk(Len(tables[t].entries), index)
       THEN /\ tables' = [tables EXCEPT ![t].entries = list_pop(@, index)]
            /\ last' = [NoCall EXCEPT !.op = "pop_entry", !.t = t, !.index = index,
                        !.ret = tables[t].entries[ListPos(Len(tables[t].entries), index)]]
       ELSE /\ tables' = tables
            /\ last' = [NoCall EXCEPT !.op = "pop_entry", !.t = t, !.index = index,
                        !.err = "IndexError"]
    /\ UNCHANGED <<heap, file>>

\* A variant of remove_entry in which an entry that is not in the list is
\* skipped without an error.
TableRemoveEntry_silent(t, e) ==
    /\ Tick
    /\ tables' = IF list_matches(tables[t].entries, e) # {}
                 THEN [tables EXCEPT ![t].entries = list_remove(@, e)]
                 ELSE tables
    /\ last' = [NoCall EXCEPT !.op = "remove_entry", !.t = t, !.e = e, !.ret = e]
    /\ UNCHANGED <<heap, file>>

\* tables[t].remove_entry(heap[e])
TableRemoveEntry(t, e) ==
    /\ Tick
    /\ IF list_matches(tables[t].entries, e) # {}
       THEN /\ tables' = [tables EXCEPT ![t].entries = list_remove(@, e)]
            /\ last' = [NoCall EXCEPT !.op = "remove_entry", !.t = t, !.e = e,
                                      !.ret = e]
       ELSE /\ tables' = tables
            /\ last' = [NoCall EXCEPT !.op = "remove_entry", !.t = t, !.e = e,
                                      !.err = "ValueError"]
    /\ UNCHANGED <<heap, file>>

\* tables[t].get_deep_copy(): Table(self.__header, self.__entries)
TableGetDeepCopy(t) ==
    /\ Tick
    /\ Len(tables) < MaxTables
    /\ HeapRoom(Len(tables[t].entries))
    /\ heap' = Table_init_heap(heap, Rows(heap, tables[t]))
    /\ tables' = Append(tables, Table_init(heap, tables[t].header,
                                           Rows(heap, tables[t])))
    /\ last' = [NoCall EXCEPT !.op = "Table.get_deep_copy", !.t = t,
                              !.ret = Len(tables) + 1]
    /\ UNCHANGED file

(***************************************************************************)
(* The values of the objects, for comparing by value.                      *)
(***************************************************************************)
TableValue(hp, tb) == [header |-> tb.header, rows |-> Rows(hp, tb)]

(***************************************************************************)
(* Entries alone: any sequence of at most MaxSteps calls on at most        *)
(* MaxObjs Entry objects.                                                  *)
(***************************************************************************)
OtherLists == UNION {[1..n -> Ids] : n \in 0..MaxOthers}

InitEntry ==
    /\ heap = << >>
    /\ tables = << >>
    /\ file = NoFile
    /\ window = NoWindow
    /\ widget = NoWidget
    /\ last = NoCall
    /\ pre = Snapshot
    /\ budget = MaxSteps

NextEntry ==
    \/ \E length \in 0..MaxCols, values \in ValueLists : EntryNew(length, values)
    \/ \E e \in Ids, c \in ColumnIndices, v \in Strs : AppendValueToColumn(e, c, v)
    \/ \E e \in Ids, c \in ColumnIndices, v \in Strs : SetValueAtColumn(e, c, v)
    \/ \E e \in Ids, c \in ColumnIndices : GetValueStrFromColumn(e, c)
    \/ \E e \in Ids : EntryGetDeepCopy(e)
    \/ \E e \in Ids, others \in OtherLists : MergeEntries(e, others)

SpecEntry == InitEntry /\ [][NextEntry]_vars

(***************************************************************************)
(* A table: constructed from a header and a list of entries the caller     *)
(* built from value lists (the caller keeps those objects, the table holds *)
(* its copies), then at most MaxTableSteps calls on the tables and on      *)
(* entries.                                                                *)
(***************************************************************************)
Headers == {<< <<"n">>, <<"m">> >>}

RowValueLists == {<< <<"a">> >>, << <<"a">>, <<"b">> >>, << EMPTY, <<"b">> >>}

InitRowLists == UNION {[1..n -> RowValueLists] : n \in 0..MaxRows}

RowIndices == (0 - (MaxRows + 1))..(MaxRows + 1)

InitTable ==
    \E header \in Headers, rows \in InitRowLists :
        LET given == [i \in 1..Len(rows) |-> Entry_init(0, rows[i])]
        IN  /\ heap = Table_init_heap(given, given)
            /\ tables = << Table_init(given, header, given) >>
            /\ file = NoFile
            /\ window = NoWindow
            /\ widget = NoWidget
            /\ last = [NoCall EXCEPT !.op = "Table", !.ret = 1]
            /\ pre = [heap |-> given, tables |-> << >>]
            /\ budget = MaxTableSteps

NextTable ==
    \/ \E t \in TableIds, e \in Ids : TableAppendEntry(t, e)
    \/ \E t \in TableIds, i \in RowIndices, e \in Ids : TableInsertEntry(t, i, e)
    \/ \E t \in TableIds, i \in RowIndices : TableGetEntry(t, i)
    \/ \E t \in TableIds, i \in RowIndices : TablePopEntry(t, i)
    \/ \E t \in TableIds, e \in Ids : TableRemoveEntry(t, e)
    \/ \E t \in TableIds : TableGetDeepCopy(t)
    \/ \E length \in 0..MaxCols, values \in ValueLists : EntryNew(length, values)
    \/ \E e \in Ids, c \in ColumnIndices, v \in Strs : AppendValueToColumn(e, c, v)
    \/ \E e \in Ids, c \in ColumnIndices, v \in Strs : SetValueAtColumn(e, c, v)
    \/ \E e \in Ids : EntryGetDeepCopy(e)

SpecTable == InitTable /\ [][NextTable]_vars

(***************************************************************************)
(* The CSV codec.  csv.writer and csv.reader are Python's, with the        *)
(* default dialect: delimiter ",", quote character ", doubled quotes,      *)
(* minimal quoting, line terminator CR LF.                                 *)
(***************************************************************************)
DELIMITER == ","

QUOTECHAR == "\""

CR == "\r"

LF == "\n"

EOL == "EOL"

\* a quote character inside a quoted field is written twice
RECURSIVE DoubleQuotes(_)
DoubleQuotes(field) ==
    IF Len(field) = 0 THEN EMPTY
    ELSE (IF field[1] = QUOTECHAR THEN <<QUOTECHAR, QUOTECHAR>> ELSE <<field[1]>>)
         \o DoubleQuotes(Tail(field))

\* minimal quoting: a field is quoted when it holds the delimiter, the quote
\* character or a character of the line terminator
NeedsQuotes(field) == Range(field) \cap {DELIMITER, QUOTECHAR, CR, LF} # {}

WriteField(field) ==
    IF NeedsQuotes(field) THEN <<QUOTECHAR>> \o DoubleQuotes(field) \o <<QUOTECHAR>>
    ELSE field

\* csv_writer.writerow(fields); a row of one empty field is written as ""
writerow(fields) ==
    IF Len(fields) = 1 /\ fields[1] = EMPTY THEN <<QUOTECHAR, QUOTECHAR, CR, LF>>
    ELSE Join([i \in 1..Len(fields) |-> WriteField(fields[i])], <<DELIMITER>>)
         \o <<CR, LF>>

RECURSIVE WriteEntries(_)
WriteEntries(entries) ==
    IF Len(entries) = 0 THEN EMPTY
    ELSE writerow(get_value_str_from_columns(entries[1], SEPARATOR))
         \o WriteEntries(Tail(entries))

\* the characters table_to_CSV writes (newline='': none is translated)
table_to_CSV(hp, tb) == writerow(tb.header) \o WriteEntries(Rows(hp, tb))

\* open(csv_filepath, 'r'): universal newlines, CR LF and CR are read as LF
RECURSIVE UniversalNewlines(_)
UniversalNewlines(text) ==
    IF Len(text) = 0 THEN EMPTY
    ELSE IF text[1] = CR
         THEN <<LF>> \o UniversalNewlines(
                  IF Len(text) > 1 /\ text[2] = LF THEN Tail(Tail(text)) ELSE Tail(text))
         ELSE <<text[1]>> \o UniversalNewlines(Tail(text))

\* csv.reader's parser: its state, the field and the record being read, and
\* the records read so far
ReaderStart == [state |-> "START_RECORD", field |-> EMPTY, fields |-> << >>,
                records |-> << >>]

SaveField(r) == [r EXCEPT !.fields = Append(@, r.field), !.field = EMPTY]

AddChar(r, c) == [r EXCEPT !.field = Append(@, c)]

StartField(r, c) ==
    IF c \in {LF, CR, EOL}
    THEN [SaveField(r) EXCEPT !.state = IF c = EOL THEN "START_RECORD" ELSE "EAT_CRNL"]
    ELSE IF c = QUOTECHAR THEN [r EXCEPT !.state = "IN_QUOTED_FIELD"]
    ELSE IF c = DELIMITER THEN [SaveField(r) EXCEPT !.state = "START_FIELD"]
    ELSE [AddChar(r, c) EXCEPT !.state = "IN_FIELD"]

ProcessChar(r, c) ==
    CASE r.state = "START_RECORD" ->
            IF c = EOL THEN r
            ELSE IF c \in {LF, CR} THEN [r EXCEPT !.state = "EAT_CRNL"]
            ELSE StartField(r, c)
      [] r.state = "START_FIELD" -> StartField(r, c)
      [] r.state = "IN_FIELD" ->
            IF c \in {LF, CR, EOL}
            THEN [SaveField(r) EXCEPT
                      !.state = IF c = EOL THEN "START_RECORD" ELSE "EAT_CRNL"]
            ELSE IF c = DELIMITER THEN [SaveField(r) EXCEPT !.state = "START_FIELD"]
            ELSE AddChar(r, c)
      [] r.state = "IN_QUOTED_FIELD" ->
            IF c = EOL THEN r
            ELSE IF c = QUOTECHAR THEN [r EXCEPT !.state = "QUOTE_IN_QUOTED_FIELD"]
            ELSE AddChar(r, c)
      [] r.state = "QUOTE_IN_QUOTED_FIELD" ->
            IF c = QUOTECHAR THEN [AddChar(r, c) EXCEPT !.state = "IN_QUOTED_FIELD"]
            ELSE IF c = DELIMITER THEN [SaveField(r) EXCEPT !.state = "START_FIELD"]
            ELSE IF c \in {LF, CR, EOL}
            THEN [SaveField(r) EXCEPT
                      !.state = IF c = EOL THEN "START_RECORD" ELSE "EAT_CRNL"]
            ELSE [AddChar(r, c) EXCEPT !.state = "IN_FIELD"]
      [] r.state = "EAT_CRNL" ->
            IF c \in {LF, CR} THEN r
            ELSE IF c = EOL THEN [r EXCEPT !.state = "START_RECORD"]
            ELSE [r EXCEPT !.state = "ERROR"]
      [] OTHER -> r

\* the end of a line: the record is complete when the parser is back at the
\* start of a record
EndOfLine(r) ==
    LET q == ProcessChar(r, EOL)
    IN  IF q.state = "START_RECORD"
        THEN [q EXCEPT !.records = Append(@, q.fields), !.fields = << >>]
        ELSE q

\* the end of the file inside a record (a quoted field left open): the
\* record read so far is returned
EndOfFile(r) ==
    IF r.state \in {"START_RECORD", "ERROR"} THEN r
    ELSE IF Len(r.field) > 0 \/ r.state = "IN_QUOTED_FIELD"
    THEN [SaveField(r) EXCEPT !.records = Append(@, Append(r.fields, r.field)),
                              !.fields = << >>, !.state = "START_RECORD"]
    ELSE r

\* for row in csv_reader, over the lines of the text; atLineStart says that
\* no character of the current line has been read
RECURSIVE ReadLines(_, _, _)
ReadLines(r, text, atLineStart) ==
    IF r.state = "ERROR" THEN r
    ELSE IF Len(text) = 0
         THEN EndOfFile(IF atLineStart THEN r ELSE EndOfLine(r))
    ELSE IF text[1] = LF
         THEN ReadLines(EndOfLine(ProcessChar(r, LF)), Tail(text), TRUE)
    ELSE ReadLines(ProcessChar(r, text[1]), Tail(text), FALSE)

csv_reader(text) == ReadLines(ReaderStart, UniversalNewlines(text), TRUE)

\* what CSV_to_table raises on the file, "ok" when it returns a table
CSV_to_table_error(f) ==
    IF ~f.exists THEN "FileNotFoundError"
    ELSE IF csv_reader(f.text).state = "ERROR" THEN "csv.Error"
    ELSE IF Len(csv_reader(f.text).records) = 0 THEN "StopIteration"
    ELSE "ok"

\* header_list = next(csv_reader)
CSV_header(f) == csv_reader(f.text).records[1]

\* A variant of the loop over the rows that starts again at the header row.
CSV_entries_with_header(f) ==
    LET rows == csv_reader(f.text).records
    IN  [i \in 1..Len(rows) |-> Entry_init(0, rows[i])]

\* entries = [Entry(values=row) for row in csv_reader]
CSV_entries(f) ==
    LET rows == Tail(csv_reader(f.text).records)
    IN  [i \in 1..Len(rows) |-> Entry_init(0, rows[i])]

\* table_to_CSV(tables[t], csv_filepath)
TableToCSV(t) ==
    /\ Tick
    /\ file' = [exists |-> TRUE, text |-> table_to_CSV(heap, tables[t])]
    /\ last' = [NoCall EXCEPT !.op = "table_to_CSV", !.t = t]
    /\ UNCHANGED <<heap, tables>>

\* CSV_to_table(csv_filepath)
CSVToTable ==
    /\ Tick
    /\ IF CSV_to_table_error(file) = "ok"
       THEN /\ Len(tables) < MaxTables
            /\ HeapRoom(Len(CSV_entries(file)))
            /\ heap' = Table_init_heap(heap, CSV_entries(file))
            /\ tables' = Append(tables,
                                Table_init(heap, CSV_header(file), CSV_entries(file)))
            /\ last' = [NoCall EXCEPT !.op = "CSV_to_table", !.ret = Len(tables) + 1]
       ELSE /\ UNCHANGED <<heap, tables>>
            /\ last' = [NoCall EXCEPT !.op = "CSV_to_table",
                                      !.err = CSV_to_table_error(file)]
    /\ UNCHANGED file

(***************************************************************************)
(* The codec: a table whose rows were built with Entry(length) and         *)
(* append_value_to_column, written and read back.                          *)
(***************************************************************************)
\* cell contents: no value, one value, two values, a value holding the
\* separator, the delimiter, a space, a quote character
CsvCells ==
    { << >>,
      << <<"a">> >>,
      << <<"a">>, <<"b">> >>,
      << <<"a", ",", " ", "b">> >>,
      << <<",">> >>,
      << <<" ">>, <<"b">> >>,
      << <<"\"", "a">> >> }

CsvCellLists == UNION {[1..n -> CsvCells] : n \in 0..MaxCols}

CsvRowLists == UNION {[1..n -> CsvCellLists] : n \in 0..MaxRows}

CsvHeaders ==
    { << >>,
      << <<"n">> >>,
      << <<"n">>, <<"a", ",", "b">> >>,
      << EMPTY, <<"m">> >>,
      << <<"n", "\r">>, <<"m">> >> }

\* Entry(length=len(cells)) and then every value appended to its column
BuildEntry(cells) ==
    AppendColumns(Entry_init(Len(cells), << >>),
                  [column_count |-> Len(cells), cell_values |-> cells],
                  0, Len(cells))

InitCSV ==
    \E header \in CsvHeaders, rows \in CsvRowLists :
        /\ heap = [i \in 1..Len(rows) |-> BuildEntry(rows[i])]
        /\ tables = << [header |-> header, entries |-> [i \in 1..Len(rows) |-> i]] >>
        /\ file = NoFile
        /\ window = NoWindow
        /\ widget = NoWidget
        /\ last = NoCall
        /\ pre = Snapshot
        /\ budget = MaxCsvSteps

NextCSV ==
    \/ \E t \in TableIds : TableToCSV(t)
    \/ CSVToTable

SpecCSV == InitCSV /\ [][NextCSV]_vars

(***************************************************************************)
(* gui.Table: the widget over a table model.  Only the fields the handlers *)
(* read are kept: the table model, the indices of the selected cell, and   *)
(* the cell the textbox over the selected cell was created for.  The       *)
(* window creates the widget editable and with the cell bar.               *)
(***************************************************************************)
None == << >>

\* the numbers the ids of the tree are made of
IdNumbers == (0 - 1)..(MaxObjs + MaxCols)

\* int(item_id), for the item ids the tree was given: str(row_index)
int(string) == CHOOSE n \in IdNumbers : ToString(n) = string

get_cell_item_id(cell_row_index) == ToString(cell_row_index)

get_cell_column_id(cell_column_index) == "#" \o ToString(cell_column_index + 1)

\* int(column_id.replace('#', ''))
ColumnNumber(column_id) ==
    CHOOSE k \in IdNumbers : "#" \o ToString(k) = column_id

\* cell_ids = (item_id, column_id); the result is (row_index, column_index)
get_cell_indices(cell_ids) ==
    IF cell_ids[1] # "" /\ cell_ids[2] # ""
    THEN << int(cell_ids[1]),
            IF cell_ids[2] # "#0" THEN ColumnNumber(cell_ids[2]) - 1 ELSE 0 >>
    ELSE None

\* What identify_row and identify_column return for a click: the id of a
\* row of the tree or "", the id of a displayed column ("#1" is the first)
\* or "".
ClickCellIds(w) ==
    IF w.table_model = 0 THEN {} ELSE
    ({""} \cup {get_cell_item_id(r) :
                   r \in 0..(Len(tables[w.table_model].entries) - 1)})
    \X
    ({""} \cup {get_cell_column_id(c) :
                   c \in 0..(Len(tables[w.table_model].header) - 1)})

\* __update_cell_indices(cell_indices).  The indices are stored first; then
\* __get_cell_value reads the row (get_entry raises for an index the list
\* does not accept), the previous textbox is destroyed and tree.bbox is
\* asked for the cell: it raises for an item the tree does not have, and
\* returns "" (which the unpacking rejects) for a cell that is not visible.
update_cell_indices(w, cell_indices, visible) ==
    LET row_index == cell_indices[1]
        column_index == cell_indices[2]
        entries == tables[w.table_model].entries
        selected == [w EXCEPT !.selected_row_index = row_index,
                              !.selected_column_index = column_index]
    IN  IF w.selected_row_index = row_index
           /\ w.selected_column_index = column_index
        THEN [widget |-> w, err |-> "ok"]
        ELSE IF ~ListIndexOk(Len(entries), row_index)
        THEN [widget |-> selected, err |-> "IndexError"]
        ELSE IF row_index \notin 0..(Len(entries) - 1)
        THEN [widget |-> [selected EXCEPT !.selected_textbox = NoTextbox],
              err |-> "TclError"]
        ELSE IF ~visible
        THEN [widget |-> [selected EXCEPT !.selected_textbox = NoTextbox],
              err |-> "ValueError"]
        ELSE [widget |-> [selected EXCEPT !.selected_textbox =
                              [row |-> row_index, column |-> column_index]],
              err |-> "ok"]

\* __set_cell_value((row_index, column_index), cell_value): what is left of
\* the heap, and how the call ends.  The entry is changed before the row of
\* the tree is.
set_cell_value(w, row_index, column_index, cell_value) ==
    LET entries == tables[w.table_model].entries
        e == entries[ListPos(Len(entries), row_index)]
    IN  IF ~ListIndexOk(Len(entries), row_index)
        THEN [heap |-> heap, err |-> "IndexError"]
        ELSE [heap |-> [heap EXCEPT
                            ![e] = set_value_at_column(@, column_index, cell_value)],
              err  |-> IF ~ListIndexOk(heap[e].column_count, column_index)
                       THEN "IndexError"
                       ELSE IF row_index \notin 0..(Len(entries) - 1)
                       THEN "TclError"
                       ELSE "ok"]

\* The widget is on the screen: it is the component of the main frame.
WidgetAlive == window.root = "mainloop" /\ window.mainframe_component = "table"

\* The handler ends with the widget as update_cell_indices left it.
UpdateCellIndices(op, cell_indices, visible) ==
    /\ widget' = update_cell_indices(widget, cell_indices, visible).widget
    /\ last' = [NoCall EXCEPT !.op = op,
                    !.err = update_cell_indices(widget, cell_indices, visible).err]
    /\ UNCHANGED <<heap, tables, file, window>>

\* The handler returns without a call of __update_cell_indices.
Ignored(op) ==
    /\ last' = [NoCall EXCEPT !.op = op]
    /\ UNCHANGED <<heap, tables, file, window, widget>>

OnUpArrowKeyClicked(visible) ==
    /\ Step
    /\ WidgetAlive
    /\ IF widget.selected_row_index > 0
       THEN UpdateCellIndices("up", <<widget.selected_row_index - 1,
                                      widget.selected_column_index>>, visible)
       ELSE Ignored("up")

OnDownArrowKeyClicked(visible) ==
    /\ Step
    /\ WidgetAlive
    /\ IF widget.selected_row_index + 1 < Len(tables[widget.table_model].entries)
       THEN UpdateCellIndices("down", <<widget.selected_row_index + 1,
                                        widget.selected_column_index>>, visible)
       ELSE Ignored("down")

OnLeftArrowKeyClicked(visible) ==
    /\ Step
    /\ WidgetAlive
    /\ IF widget.selected_column_index > 0
       THEN UpdateCellIndices("left", <<widget.selected_row_index,
                                        widget.selected_column_index - 1>>, visible)
       ELSE Ignored("left")

OnRightArrowKeyClicked(visible) ==
    /\ Step
    /\ WidgetAlive
    /\ IF widget.selected_column_index + 1 < Len(tables[widget.table_model].header)
       THEN UpdateCellIndices("right", <<widget.selected_row_index,
                                         widget.selected_column_index + 1>>, visible)
       ELSE Ignored("right")

OnSingleClick(cell_ids, visible) ==
    /\ Step
    /\ WidgetAlive
    /\ cell_ids \in ClickCellIds(widget)
    /\ IF get_cell_indices(cell_ids) = None
       THEN Ignored("click")
       ELSE UpdateCellIndices("click", get_cell_indices(cell_ids), visible)

\* After __update_cell_indices the handler only moves the focus.
OnDoubleClick(cell_ids, visible) ==
    /\ Step
    /\ WidgetAlive
    /\ cell_ids \in ClickCellIds(widget)
    /\ IF get_cell_indices(cell_ids) = None
       THEN Ignored("double_click")
       ELSE UpdateCellIndices("double_click", get_cell_indices(cell_ids), visible)

\* save_edit of the cell bar, on <<Modified>>: the text of the bar goes to
\* the selected cell.
CellBarSaveEdit(cell_bar_string) ==
    /\ Step
    /\ WidgetAlive
    /\ heap' = set_cell_value(widget, widget.selected_row_index,
                              widget.selected_column_index, cell_bar_string).heap
    /\ last' = [NoCall EXCEPT !.op = "cell_bar_edit", !.value = cell_bar_string,
                    !.err = set_cell_value(widget, widget.selected_row_index,
                                           widget.selected_column_index,
                                           cell_bar_string).err]
    /\ UNCHANGED <<tables, file, window, widget>>

\* save_edit of the textbox, on <FocusOut>: the text goes to the cell the
\* textbox was created for.
TextboxSaveEdit(new_text) ==
    /\ Step
    /\ WidgetAlive
    /\ widget.selected_textbox # NoTextbox
    /\ heap' = set_cell_value(widget, widget.selected_textbox.row,
                              widget.selected_textbox.column, new_text).heap
    /\ last' = [NoCall EXCEPT !.op = "textbox_edit", !.value = new_text,
                    !.err = set_cell_value(widget, widget.selected_textbox.row,
                                           widget.selected_textbox.column,
                                           new_text).err]
    /\ UNCHANGED <<tables, file, window, widget>>

(***************************************************************************)
(* gui.Window: the File menu.                                              *)
(***************************************************************************)
\* A variant of DestroyComponent that also lets go of the table model.
DestroyComponent_and_model(w) ==
    [w EXCEPT !.mainframe_component = "none", !.current_table_model = 0]

\* self.__mainframe_component.destroy(); self.__mainframe_component = None
DestroyComponent(w) == [w EXCEPT !.mainframe_component = "none"]

\* __open: the file dialog is cancelled, or returns the path of file f.  The
\* component of the main frame is destroyed before the file is read; the
\* table model and the new widget are set after CSV_to_table has returned.
WindowOpen(cancelled, f) ==
    /\ Step
    /\ window.root = "mainloop"
    /\ IF cancelled
       THEN /\ last' = [NoCall EXCEPT !.op = "open", !.cancelled = TRUE]
            /\ UNCHANGED <<heap, tables, file, window, widget>>
       ELSE /\ file' = f
            /\ IF CSV_to_table_error(f) = "ok"
               THEN /\ heap' = Table_init_heap(heap, CSV_entries(f))
                    /\ tables' = Append(tables, Table_init(heap, CSV_header(f),
                                                           CSV_entries(f)))
                    /\ window' = [DestroyComponent(window) EXCEPT
                                      !.current_table_model = Len(tables) + 1,
                                      !.mainframe_component = "table"]
                    /\ widget' = [NoWidget EXCEPT !.table_model = Len(tables) + 1]
                    /\ last' = [NoCall EXCEPT !.op = "open",
                                              !.ret = Len(tables) + 1]
               ELSE /\ window' = DestroyComponent(window)
                    /\ widget' = NoWidget
                    /\ last' = [NoCall EXCEPT !.op = "open",
                                              !.err = CSV_to_table_error(f)]
                    /\ UNCHANGED <<heap, tables>>

\* __save: returns when there is no table model or the dialog is cancelled,
\* and prints the path otherwise.
WindowSave(cancelled) ==
    /\ Step
    /\ window.root = "mainloop"
    /\ last' = [NoCall EXCEPT !.op = "save", !.cancelled = cancelled]
    /\ UNCHANGED <<heap, tables, file, window, widget>>

\* __close
WindowClose ==
    /\ Step
    /\ window.root = "mainloop"
    /\ last' = [NoCall EXCEPT !.op = "close"]
    /\ IF window.current_table_model = 0
       THEN UNCHANGED <<window, widget>>
       ELSE /\ window' = [DestroyComponent([window EXCEPT !.current_table_model = 0])
                              EXCEPT !.mainframe_component = "label"]
            /\ widget' = NoWidget
    /\ UNCHANGED <<heap, tables, file>>

\* __exit
WindowExit ==
    /\ Step
    /\ window.root = "mainloop"
    /\ window' = [window EXCEPT !.root = "destroyed"]
    /\ widget' = NoWidget
    /\ last' = [NoCall EXCEPT !.op = "exit"]
    /\ UNCHANGED <<heap, tables, file>>

(***************************************************************************)
(* The window: at most MaxGuiSteps events of the menu, the keys and the    *)
(* mouse, and edits of the cell bar and the textbox.                       *)
(***************************************************************************)
\* The files the dialog can return the path of: one that cannot be opened,
\* an empty one, a header alone, one row, two rows (the second one short).
GuiFiles ==
    { NoFile,
      [exists |-> TRUE, text |-> << >>],
      [exists |-> TRUE, text |-> <<"n", ",", "m", "\r", "\n">>],
      [exists |-> TRUE, text |-> <<"n", ",", "m", "\r", "\n",
                                   "a", ",", "b", "\r", "\n">>],
      [exists |-> TRUE, text |-> <<"n", ",", "m", "\r", "\n",
                                   "a", ",", "b", "\r", "\n",
                                   "b", "\r", "\n">>] }

\* What Text.get("1.0", tk.END) returns: the text and a newline.
GuiTexts == {<<"\n">>, <<"a", "\n">>}

InitGui ==
    /\ heap = << >>
    /\ tables = << >>
    /\ file = NoFile
    /\ window = NoWindow
    /\ widget = NoWidget
    /\ last = NoCall
    /\ pre = Snapshot
    /\ budget = MaxGuiSteps

NextGui ==
    \/ \E cancelled \in BOOLEAN, f \in GuiFiles : WindowOpen(cancelled, f)
    \/ \E cancelled \in BOOLEAN : WindowSave(cancelled)
    \/ WindowClose
    \/ WindowExit
    \/ \E visible \in BOOLEAN : OnUpArrowKeyClicked(visible)
    \/ \E visible \in BOOLEAN : OnDownArrowKeyClicked(visible)
    \/ \E visible \in BOOLEAN : OnLeftArrowKeyClicked(visible)
    \/ \E visible \in BOOLEAN : OnRightArrowKeyClicked(visible)
    \/ \E cell_ids \in ClickCellIds(widget), visible \in BOOLEAN :
           OnSingleClick(cell_ids, visible)
    \/ \E cell_ids \in ClickCellIds(widget), visible \in BOOLEAN :
           OnDoubleClick(cell_ids, visible)
    \/ \E cell_bar_string \in GuiTexts : CellBarSaveEdit(cell_bar_string)
    \/ \E new_text \in GuiTexts : TextboxSaveEdit(new_text)

SpecGui == InitGui /\ [][NextGui]_vars

(***************************************************************************)
(* Properties of Entry.                                                    *)
(***************************************************************************)
InRange(entry, column_index) ==
    column_index >= 0 /\ column_index < entry.column_count

Columns(entry) == 0..(entry.column_count - 1)

NoDuplicates(s) == \A i, j \in 1..Len(s) : s[i] = s[j] => i = j

\* C1: no cell of any entry contains the empty string, after any sequence of
\* Entry construction, append_value_to_column, set_value_at_column,
\* get_deep_copy and merge_entries calls.
C1_NoEmptyString ==
    \A e \in Ids : \A c \in Columns(heap[e]) :
        EMPTY \notin Range(get_values_from_column(heap[e], c))

\* The empty string was appended to a column that holds a value.
C1_Witness ==
    /\ last.op = "append_value_to_column"
    /\ last.value = EMPTY
    /\ InRange(heap[last.e], last.index)
    /\ Len(get_values_from_column(heap[last.e], last.index)) > 0

\* C5: after set_value_at_column(c, v) with c in range, column c holds exactly
\* [v] when v is not the empty string and its previous values when v is the
\* empty string; every other column is unchanged.
C5_SetValue ==
    (last.op = "set_value_at_column" /\ InRange(pre.heap[last.e], last.index)) =>
        LET old == pre.heap[last.e]
            new == heap[last.e]
        IN  /\ last.err = "ok"
            /\ new.column_count = old.column_count
            /\ get_values_from_column(new, last.index) =
                   IF last.value # EMPTY THEN <<last.value>>
                   ELSE get_values_from_column(old, last.index)
            /\ \A c \in Columns(old) :
                   c # last.index =>
                       get_values_from_column(new, c) = get_values_from_column(old, c)

\* A value was set on a column that held two values, in an entry whose other
\* column holds a value.
C5_Witness ==
    /\ last.op = "set_value_at_column"
    /\ last.value # EMPTY
    /\ InRange(pre.heap[last.e], last.index)
    /\ Len(get_values_from_column(pre.heap[last.e], last.index)) = 2
    /\ \E c \in Columns(heap[last.e]) :
           c # last.index /\ Len(get_values_from_column(heap[last.e], c)) > 0

\* C6: append_value_to_column with c in range and a non-empty v adds v at the
\* end of the column when it is not yet present and changes neither contents
\* nor order when it is; appending v a second time changes nothing, and no
\* column ever holds a value twice.
C6_AppendIdempotent ==
    /\ (/\ last.op = "append_value_to_column"
        /\ InRange(pre.heap[last.e], last.index)
        /\ last.value # EMPTY) =>
           LET before == get_values_from_column(pre.heap[last.e], last.index)
               after  == get_values_from_column(heap[last.e], last.index)
           IN  /\ last.err = "ok"
               /\ after = IF last.value \in Range(before) THEN before
                          ELSE Append(before, last.value)
               /\ append_value_to_column(heap[last.e], last.index, last.value)
                      = heap[last.e]
    /\ \A e \in Ids : \A c \in Columns(heap[e]) :
           NoDuplicates(get_values_from_column(heap[e], c))

\* The first of the two values of a column was appended to it again.
C6_Witness ==
    /\ last.op = "append_value_to_column"
    /\ InRange(pre.heap[last.e], last.index)
    /\ Len(get_values_from_column(pre.heap[last.e], last.index)) = 2
    /\ last.value = get_values_from_column(pre.heap[last.e], last.index)[1]

\* the values the other entries contribute to column c of a merge with self,
\* in list order
RECURSIVE Contributed(_, _, _)
Contributed(self, entries, c) ==
    IF Len(entries) = 0 THEN << >>
    ELSE (IF c < Min(self.column_count, entries[1].column_count)
          THEN get_values_from_column(entries[1], c) ELSE << >>)
         \o Contributed(self, Tail(entries), c)

FirstIndex(s, x) == SetMin({i \in 1..Len(s) : s[i] = x})

\* r holds the values of s once each, in the order of their first occurrence
FirstOccurrences(r, s) ==
    /\ NoDuplicates(r)
    /\ Range(r) = Range(s)
    /\ \A i, j \in 1..Len(r) : i < j => FirstIndex(s, r[i]) < FirstIndex(s, r[j])

\* C8: merge_entries returns a new entry with self's column count whose
\* column c holds self's values of c followed by the values of c of every
\* other entry with c below min(self's column count, its column count), in
\* list order, each value once; merge_entries([]) equals get_deep_copy().
C8_Merge ==
    last.op = "merge_entries" =>
        LET self    == pre.heap[last.e]
            entries == [i \in 1..Len(last.others) |-> pre.heap[last.others[i]]]
            merged  == heap[last.ret]
        IN  /\ last.ret \notin 1..Len(pre.heap)
            /\ \A i \in 1..Len(pre.heap) : heap[i] = pre.heap[i]
            /\ merged.column_count = self.column_count
            /\ Len(merged.cell_values) = self.column_count
            /\ \A c \in Columns(self) :
                   FirstOccurrences(
                       get_values_from_column(merged, c),
                       get_values_from_column(self, c) \o Contributed(self, entries, c))
            /\ Len(entries) = 0 => merged = Entry_get_deep_copy(self)

\* A two-column entry was merged with a one-column entry whose column holds
\* two values, one of them already in self's column and one not.
C8_Witness ==
    /\ last.op = "merge_entries"
    /\ pre.heap[last.e].column_count = 2
    /\ Len(get_values_from_column(pre.heap[last.e], 1)) > 0
    /\ \E i \in 1..Len(last.others) :
           LET other == pre.heap[last.others[i]]
           IN  /\ other.column_count = 1
               /\ Len(get_values_from_column(other, 0)) = 2
               /\ \E v \in Range(get_values_from_column(other, 0)) :
                      v \in Range(get_values_from_column(pre.heap[last.e], 0))
               /\ \E v \in Range(get_values_from_column(other, 0)) :
                      v \notin Range(get_values_from_column(pre.heap[last.e], 0))

\* C9: with a column index outside [0, columnCount), append_value_to_column
\* and set_value_at_column raise nothing and leave every cell unchanged, and
\* get_value_str_from_column returns the empty string.
C9_OutOfRange ==
    /\ (/\ last.op \in {"append_value_to_column", "set_value_at_column"}
        /\ ~InRange(pre.heap[last.e], last.index)) =>
           (last.err = "ok" /\ heap = pre.heap)
    /\ (/\ last.op = "get_value_str_from_column"
        /\ ~InRange(pre.heap[last.e], last.index)) =>
           (last.err = "ok" /\ last.str = EMPTY)

\* A value was appended at column -1 of an entry whose last column holds a
\* value.
C9_Witness ==
    /\ last.op = "append_value_to_column"
    /\ last.index = 0 - 1
    /\ last.value # EMPTY
    /\ pre.heap[last.e].column_count = 2
    /\ Len(get_values_from_column(pre.heap[last.e], 1)) > 0

(***************************************************************************)
(* Properties of Table.                                                    *)
(***************************************************************************)
\* the rows of table t before the last call, as objects and as values
RowsBefore(t) == pre.tables[t].entries

\* the positions of the rows of t that were equal by value to entry e
ValueMatches(t, e) ==
    {i \in 1..Len(RowsBefore(t)) : pre.heap[RowsBefore(t)[i]] = pre.heap[e]}

Without(l, p) == SubSeq(l, 1, p - 1) \o SubSeq(l, p + 1, Len(l))

\* C3: remove_entry(entry) removes the first row that is equal to entry by
\* value, also when that row is another object than the argument; the rows
\* after it move up by one position.
C3_RemoveByValue ==
    (last.op = "remove_entry" /\ ValueMatches(last.t, last.e) # {}) =>
        /\ last.err = "ok"
        /\ tables[last.t].entries =
               Without(RowsBefore(last.t), SetMin(ValueMatches(last.t, last.e)))

\* C4: remove_entry(entry) with an entry that matches no row fails with a
\* not-found error and leaves the table unchanged.
C4_RemoveAbsent ==
    (last.op = "remove_entry" /\ ValueMatches(last.t, last.e) = {}) =>
        /\ last.err = "ValueError"
        /\ tables = pre.tables
        /\ heap = pre.heap

\* remove_entry was called on a table with rows, none of them equal to the
\* entry.
C4_Witness ==
    /\ last.op = "remove_entry"
    /\ ValueMatches(last.t, last.e) = {}
    /\ Len(RowsBefore(last.t)) = 2

\* the objects a call on table t or on entry e reaches
Disjoint(a, b) == Range(a) \cap Range(b) = {}

TableCalls == {"append_entry", "insert_entry", "pop_entry", "remove_entry"}

EntryCalls == {"append_value_to_column", "set_value_at_column"}

\* the last call changed table t: its rows, or the cells of one of its rows
Mutated(t) ==
    \/ last.op \in TableCalls /\ last.t = t
    \/ last.op \in EntryCalls /\ last.e \in Range(pre.tables[t].entries)

C10_IndexChecked ==
    last.op \in {"get_entry", "pop_entry"} =>
        LET rows == RowsBefore(last.t)
        IN  IF last.index >= 0 /\ last.index < Len(rows)
            THEN /\ last.err = "ok"
                 /\ last.ret = rows[last.index + 1]
                 /\ tables[last.t].entries =
                        IF last.op = "pop_entry" THEN Without(rows, last.index + 1)
                        ELSE rows
            ELSE /\ last.err = "IndexError"
                 /\ tables = pre.tables

\* C11: insert_entry(index, entry) fails with an out-of-range error and
\* leaves the rows unchanged for every index outside
\* 0 <= index <= entryCount(); inside, the entry is put at that position and
\* the rows from there on move down by one, so that index = entryCount()
\* does what append_entry does.
C11_InsertChecked ==
    last.op = "insert_entry" =>
        LET rows == RowsBefore(last.t)
        IN  IF last.index >= 0 /\ last.index <= Len(rows)
            THEN /\ last.err = "ok"
                 /\ tables[last.t].entries =
                        SubSeq(rows, 1, last.index) \o <<last.e>>
                            \o SubSeq(rows, last.index + 1, Len(rows))
                 /\ last.index = Len(rows) =>
                        tables[last.t].entries = Append(rows, last.e)
            ELSE /\ last.err = "IndexError"
                 /\ tables = pre.tables

\* C13: in every table - constructed from a header and entries, returned by
\* CSV_to_table, or changed by append_entry, insert_entry, pop_entry and
\* remove_entry - every row has as many columns as the header has names.
C13_ColumnCountsMatch ==
    \A t \in TableIds : \A i \in 1..Len(tables[t].entries) :
        heap[tables[t].entries[i]].column_count = Len(tables[t].header)

(***************************************************************************)
(* Properties of the codec.                                                *)
(***************************************************************************)
\* no quote character and no line break in the string
Plain(str) == Range(str) \cap {QUOTECHAR, CR, LF} = {}

CellValuesPlain(hp, tb) ==
    \A i \in 1..Len(tb.entries) : \A c \in Columns(hp[tb.entries[i]]) :
        \A v \in Range(get_values_from_column(hp[tb.entries[i]], c)) : Plain(v)

ColumnNamesPlain(tb) == \A i \in 1..Len(tb.header) : Plain(tb.header[i])

SingleValued(hp, tb) ==
    \A i \in 1..Len(tb.entries) : \A c \in Columns(hp[tb.entries[i]]) :
        Len(get_values_from_column(hp[tb.entries[i]], c)) <= 1

\* the file holds what table_to_CSV writes for table t
WrittenFrom(t) == file.exists /\ file.text = table_to_CSV(pre.heap, pre.tables[t])

\* the table CSV_to_table returned is equal by value to table t
ReadBack(t) ==
    /\ last.err = "ok"
    /\ TableValue(heap, tables[last.ret]) = TableValue(pre.heap, pre.tables[t])

\* C2 as stated: for any table whose cell values hold no newline and no quote
\* character, table_to_CSV followed by CSV_to_table yields a table equal by
\* value (column names, rows in order, ordered values of every cell), also
\* when cells hold several values.  The column names are taken to be under
\* the same restriction as the cell values.
C2_RoundTripAnyTable ==
    last.op = "CSV_to_table" =>
        \A t \in 1..Len(pre.tables) :
            (/\ WrittenFrom(t)
             /\ CellValuesPlain(pre.heap, pre.tables[t])
             /\ ColumnNamesPlain(pre.tables[t])) => ReadBack(t)

\* C2, amended: the round trip yields an equal table when neither the cell
\* values nor the column names hold a newline or a quote character and
\* every cell holds at most one value.
C2_RoundTripSingleValued ==
    last.op = "CSV_to_table" =>
        \A t \in 1..Len(pre.tables) :
            (/\ WrittenFrom(t)
             /\ CellValuesPlain(pre.heap, pre.tables[t])
             /\ ColumnNamesPlain(pre.tables[t])
             /\ SingleValued(pre.heap, pre.tables[t])) => ReadBack(t)

\* A table of two rows was read back equal: one of its cells holds a value
\* with the separator in it, another holds nothing.
C2_Witness ==
    /\ last.op = "CSV_to_table"
    /\ WrittenFrom(1)
    /\ CellValuesPlain(pre.heap, pre.tables[1])
    /\ ColumnNamesPlain(pre.tables[1])
    /\ SingleValued(pre.heap, pre.tables[1])
    /\ ReadBack(1)
    /\ Len(tables[1].entries) = 2
    /\ Len(tables[1].header) = 2
    /\ \E i \in 1..2 : \E c \in Columns(heap[tables[1].entries[i]]) :
           get_values_from_column(heap[tables[1].entries[i]], c) =
               << <<"a">> \o SEPARATOR \o <<"b">> >>
    /\ \E i \in 1..2 : \E c \in Columns(heap[tables[1].entries[i]]) :
           get_values_from_column(heap[tables[1].entries[i]], c) = << >>

(***************************************************************************)
(* Properties of the window and the widget.                                *)
(***************************************************************************)
\* the open did not load a table: the dialog was cancelled or CSV_to_table
\* raised
OpenFailed == last.op = "open" /\ (last.cancelled \/ last.err # "ok")

\* the tables that existed before the event have the rows and the cell
\* values they had
TablesUnmodified ==
    \A t \in 1..Len(pre.tables) :
        TableValue(heap, tables[t]) = TableValue(pre.heap, pre.tables[t])

\* C12: the window's table model is replaced only by an open whose
\* CSV_to_table returned a table: after an open that was cancelled or whose
\* CSV_to_table failed, and after a save, the current table model is the
\* one it was before, with its rows and cell values unmodified; close is the
\* only other event that changes it, to none.
C12_OpenKeepsTable ==
    /\ (OpenFailed \/ last.op = "save") =>
           /\ window.current_table_model = pre.window.current_table_model
           /\ TablesUnmodified
    /\ (last.op \in {"open", "save", "close"}
          /\ window.current_table_model # pre.window.current_table_model) =>
           \/ last.op = "open" /\ ~OpenFailed
                 /\ window.current_table_model = last.ret
                 /\ last.ret \notin 1..Len(pre.tables)
                 /\ TablesUnmodified
           \/ last.op = "close" /\ window.current_table_model = 0

\* An open failed in CSV_to_table while a table of two rows was loaded, one
\* of whose cells had been edited: the widget is gone and the table model is
\* still that table.
C12_Witness ==
    /\ last.op = "open"
    /\ ~last.cancelled
    /\ last.err # "ok"
    /\ window.mainframe_component = "none"
    /\ pre.window.mainframe_component = "table"
    /\ window.current_table_model = 1
    /\ Len(tables[1].entries) = 2
    /\ \E i \in 1..2 : \E c \in Columns(heap[tables[1].entries[i]]) :
           get_values_from_column(heap[tables[1].entries[i]], c) = << <<"a", "\n">> >>

\* C14: while the widget is on the screen, the selected (row, column) pair
\* is (-1, -1) or a cell of the table model, 0 <= row < entry count and
\* 0 <= column < column count; never exactly one of the two is -1.
C14_SelectionValid ==
    WidgetAlive =>
        LET row == widget.selected_row_index
            column == widget.selected_column_index
        IN  \/ row = 0 - 1 /\ column = 0 - 1
            \/ /\ row \in 0..(Len(tables[widget.table_model].entries) - 1)
               /\ column \in 0..(Len(tables[widget.table_model].header) - 1)

====
